---- MODULE Spec2Model ----
(***************************************************************************)
(* The book-creation service of src/main.rs: the in-memory repository      *)
(* (MemoryRepository, a Mutex<Vec<Book>>) and the create_book handler,     *)
(* run by several worker threads at once.  Each request is a process that  *)
(* walks through the statements of create_book; the statements that touch  *)
(* the shared mutex, the shared vector or the wall clock are separate      *)
(* steps, so every interleaving the workers can produce is a behaviour.    *)
(***************************************************************************)
EXTENDS Integers, Sequences, FiniteSets, TLC

\* ---------------------------------------------------------------- bounds
\* Number of create_book requests in flight during one run of the server.
NumReqs == 2
\* Largest reading of the wall clock (Local::now()) the model follows.
MaxClock == 1

Reqs == 1..NumReqs

\* ------------------------------------------------------- Option<T> values
\* Option<T>: None is the empty sequence, Some(v) the one-element sequence.
None == << >>
Some(v) == << v >>
is_none(o) == Len(o) = 0
is_some(o) == Len(o) = 1
unwrap(o) == o[1]

\* --------------------------------------------------------- request inputs
\* The JSON bodies the model posts: each field present or absent; titles
\* include the empty string and page counts a negative number.
Titles == {"", "Dune"}
Authors == {"Herbert"}
PageCounts == {-1, 412}

\* CreateBook { title: Option<String>, author: Option<String>, pages: Option<_> }
CreateBook ==
  [title : {None} \cup {Some(t) : t \in Titles},
   author : {None} \cup {Some(a) : a \in Authors},
   pages : {None} \cup {Some(p) : p \in PageCounts}]

\* ------------------------------------------------------------ status codes
OK_CREATED == 201
BAD_REQUEST == 400
UNPROCESSABLE_ENTITY == 422

\* StatusCode::to_string(): Display of http::StatusCode prints the number
\* followed by the canonical reason phrase.
StatusCodeToString(s) ==
  CASE s = 201 -> "201 Created"
    [] s = 400 -> "400 Bad Request"
    [] s = 422 -> "422 Unprocessable Entity"

\* Error::new(message, code)
ErrorNew(message, code) == [message |-> message, code |-> code]

\* A response: the status line and the JSON body.
NoResponse == [status |-> 0]
Response(status, body) == [status |-> status, body |-> body]

VARIABLES
  books,      \* MemoryRepository.books: the Vec<Book> inside the Mutex
  holder,     \* the request owning the MutexGuard, 0 when the mutex is free
  poisoned,   \* the poison flag of the Mutex
  now,        \* the wall clock read by Local::now()
  uuids,      \* number of identifiers Uuid::new_v4() has handed out
  pc,         \* the statement each request is at
  payload,    \* each request's Json<CreateBook>
  book,       \* each request's local `book` under construction
  resp,       \* each request's HttpResponse, NoResponse until it answers
  started     \* clock reading when the request entered the handler

vars == << books, holder, poisoned, now, uuids, pc, payload, book, resp,
           started >>

NoPayload == [title |-> None, author |-> None, pages |-> None]
NoBook == [id |-> 0]

\* MemoryRepository::init(): an empty vector behind a fresh mutex.
Init ==
  /\ books = << >>
  /\ holder = 0
  /\ poisoned = FALSE
  /\ now = 0
  /\ uuids = 0
  /\ pc = [r \in Reqs |-> "idle"]
  /\ payload = [r \in Reqs |-> NoPayload]
  /\ book = [r \in Reqs |-> NoBook]
  /\ resp = [r \in Reqs |-> NoResponse]
  /\ started = [r \in Reqs |-> 0]

\* Variant of has_invalid_params_on_create that forgets the pages check.
has_invalid_params_no_pages(p) ==
  IF is_none(p.title) \/ is_none(p.author) THEN TRUE ELSE FALSE

\* Variant of has_invalid_params_on_create that also rejects an empty title.
has_invalid_params_strict(p) ==
  IF is_none(p.title) \/ is_none(p.author) \/ is_none(p.pages)
     \/ p.title = Some("")
  THEN TRUE ELSE FALSE

\* has_invalid_params_on_create(payload)
has_invalid_params_on_create(p) ==
  IF is_none(p.title) \/ is_none(p.author) \/ is_none(p.pages)
  THEN TRUE ELSE FALSE

\* books.iter().find(|book| book.title == title): the first match, or None.
RECURSIVE find_from(_, _, _)
find_from(s, i, title) ==
  IF i > Len(s) THEN None
  ELSE IF s[i].title = title THEN Some(s[i])
  ELSE find_from(s, i + 1, title)

\* Variant of find_title with an off-by-one: the last element is not looked at.
find_title_skip_last(s, title) ==
  IF Len(s) = 0 THEN None ELSE find_from(SubSeq(s, 1, Len(s) - 1), 1, title)

\* Variant of find_title that compares the stored author with the title.
RECURSIVE find_author_from(_, _, _)
find_author_from(s, i, title) ==
  IF i > Len(s) THEN None
  ELSE IF s[i].author = title THEN Some(s[i])
  ELSE find_author_from(s, i + 1, title)

find_by_author(s, title) == find_author_from(s, 1, title)

find_title(s, title) == find_from(s, 1, title)

\* Variant of vec_push that appends the element twice.
vec_push_twice(s, b) == Append(Append(s, b), b)

\* Variant of vec_push that inserts at the front.
vec_push_front(s, b) == << b >> \o s

\* Vec::push
vec_push(s, b) == Append(s, b)

\* The wall clock advances on its own.
Tick ==
  /\ now < MaxClock
  /\ now' = now + 1
  /\ UNCHANGED << books, holder, poisoned, uuids, pc, payload, book, resp, started >>

\* actix hands a deserialised body to create_book on some worker.
Receive(r) ==
  /\ pc[r] = "idle"
  /\ \A q \in 1..(r - 1) : pc[q] # "idle"
  /\ \E p \in CreateBook : payload' = [payload EXCEPT ![r] = p]
  /\ started' = [started EXCEPT ![r] = now]
  /\ pc' = [pc EXCEPT ![r] = "validate"]
  /\ UNCHANGED << books, holder, poisoned, now, uuids, book, resp >>

\* Variant of Validate that runs after the lock has been taken: it waits for
\* the mutex to be free.
ValidateUnderLock(r) ==
  /\ pc[r] = "validate"
  /\ holder = 0
  /\ IF has_invalid_params_on_create(payload[r])
     THEN /\ resp' = [resp EXCEPT ![r] =
                 Response(BAD_REQUEST,
                          ErrorNew("Invalid params", StatusCodeToString(BAD_REQUEST)))]
          /\ pc' = [pc EXCEPT ![r] = "done"]
     ELSE /\ pc' = [pc EXCEPT ![r] = "lock"]
          /\ UNCHANGED resp
  /\ UNCHANGED << books, holder, poisoned, now, uuids, payload, book, started >>

\* Lines 72-75: reject a body with a missing field.
Validate(r) ==
  /\ pc[r] = "validate"
  /\ IF has_invalid_params_on_create(payload[r])
     THEN /\ resp' = [resp EXCEPT ![r] =
                 Response(BAD_REQUEST,
                          ErrorNew("Invalid params", StatusCodeToString(BAD_REQUEST)))]
          /\ pc' = [pc EXCEPT ![r] = "done"]
     ELSE /\ pc' = [pc EXCEPT ![r] = "lock"]
          /\ UNCHANGED resp
  /\ UNCHANGED << books, holder, poisoned, now, uuids, payload, book, started >>

\* Variant of Lock that does not wait for the mutex to be free.
LockNoWait(r) ==
  /\ pc[r] = "lock"
  /\ ~poisoned
  /\ holder' = r
  /\ pc' = [pc EXCEPT ![r] = "scan"]
  /\ UNCHANGED << books, poisoned, now, uuids, payload, book, resp, started >>

\* Line 76: data.books.lock().unwrap() on a healthy mutex blocks until free.
Lock(r) ==
  /\ pc[r] = "lock"
  /\ holder = 0
  /\ ~poisoned
  /\ holder' = r
  /\ pc' = [pc EXCEPT ![r] = "scan"]
  /\ UNCHANGED << books, poisoned, now, uuids, payload, book, resp, started >>

\* Variant of Scan whose guard lives only for the scan: the mutex is released
\* before the book is built and pushed.
ScanReleases(r) ==
  /\ pc[r] = "scan"
  /\ LET book_repo == find_title(books, unwrap(payload[r].title)) IN
     IF is_some(book_repo)
     THEN /\ resp' = [resp EXCEPT ![r] =
                 Response(UNPROCESSABLE_ENTITY,
                          ErrorNew("Book already exists",
                                   StatusCodeToString(UNPROCESSABLE_ENTITY)))]
          /\ pc' = [pc EXCEPT ![r] = "done"]
     ELSE /\ pc' = [pc EXCEPT ![r] = "build"]
          /\ UNCHANGED resp
  /\ holder' = IF holder = r THEN 0 ELSE holder
  /\ UNCHANGED << books, poisoned, now, uuids, payload, book, started >>

\* Lines 77-82: look for the title; answer 422 when it is there.  The early
\* return drops the guard.
Scan(r) ==
  /\ pc[r] = "scan"
  /\ LET book_repo == find_title(books, unwrap(payload[r].title)) IN
     IF is_some(book_repo)
     THEN /\ resp' = [resp EXCEPT ![r] =
                 Response(UNPROCESSABLE_ENTITY,
                          ErrorNew("Book already exists",
                                   StatusCodeToString(UNPROCESSABLE_ENTITY)))]
          /\ holder' = IF holder = r THEN 0 ELSE holder
          /\ pc' = [pc EXCEPT ![r] = "done"]
     ELSE /\ pc' = [pc EXCEPT ![r] = "build"]
          /\ UNCHANGED << resp, holder >>
  /\ UNCHANGED << books, poisoned, now, uuids, payload, book, started >>

\* Variant of Build that fills title and author from each other's field.
BuildSwapped(r) ==
  /\ pc[r] = "build"
  /\ uuids' = uuids + 1
  /\ book' = [book EXCEPT ![r] =
        [id |-> uuids + 1,
         title |-> unwrap(payload[r].author),
         author |-> unwrap(payload[r].title),
         pages |-> unwrap(payload[r].pages),
         created_at |-> now]]
  /\ pc' = [pc EXCEPT ![r] = "stamp"]
  /\ UNCHANGED << books, holder, poisoned, now, payload, resp, started >>

\* Variant of Build that gives every Book the same identifier (Uuid::nil()).
BuildNilId(r) ==
  /\ pc[r] = "build"
  /\ uuids' = uuids + 1
  /\ book' = [book EXCEPT ![r] =
        [id |-> 0,
         title |-> unwrap(payload[r].title),
         author |-> unwrap(payload[r].author),
         pages |-> unwrap(payload[r].pages),
         created_at |-> now]]
  /\ pc' = [pc EXCEPT ![r] = "stamp"]
  /\ UNCHANGED << books, holder, poisoned, now, payload, resp, started >>

\* Lines 84-89: the fields of Book up to created_at, in declaration order.
\* Uuid::new_v4() is taken at its word: it returns an identifier it has not
\* returned before, here the next number.
Build(r) ==
  /\ pc[r] = "build"
  /\ uuids' = uuids + 1
  /\ book' = [book EXCEPT ![r] =
        [id |-> uuids + 1,
         title |-> unwrap(payload[r].title),
         author |-> unwrap(payload[r].author),
         pages |-> unwrap(payload[r].pages),
         created_at |-> now]]
  /\ pc' = [pc EXCEPT ![r] = "stamp"]
  /\ UNCHANGED << books, holder, poisoned, now, payload, resp, started >>

\* Lines 90-91: updated_at is a second reading of the clock.
Stamp(r) ==
  /\ pc[r] = "stamp"
  /\ book' = [book EXCEPT ![r] =
        [id |-> book[r].id,
         title |-> book[r].title,
         author |-> book[r].author,
         pages |-> book[r].pages,
         created_at |-> book[r].created_at,
         updated_at |-> now]]
  /\ pc' = [pc EXCEPT ![r] = "push"]
  /\ UNCHANGED << books, holder, poisoned, now, uuids, payload, resp, started >>

\* Line 93: books.push(book.clone())
Push(r) ==
  /\ pc[r] = "push"
  /\ books' = vec_push(books, book[r])
  /\ pc' = [pc EXCEPT ![r] = "respond"]
  /\ UNCHANGED << holder, poisoned, now, uuids, payload, book, resp, started >>

\* Variant of Respond that keeps the guard alive after the response.
RespondLeaks(r) ==
  /\ pc[r] = "respond"
  /\ resp' = [resp EXCEPT ![r] = Response(OK_CREATED, book[r])]
  /\ pc' = [pc EXCEPT ![r] = "done"]
  /\ UNCHANGED << books, holder, poisoned, now, uuids, payload, book, started >>

\* Lines 94-95: answer 201 with the book; the guard is dropped at the end
\* of the function.
Respond(r) ==
  /\ pc[r] = "respond"
  /\ resp' = [resp EXCEPT ![r] = Response(OK_CREATED, book[r])]
  /\ holder' = IF holder = r THEN 0 ELSE holder
  /\ pc' = [pc EXCEPT ![r] = "done"]
  /\ UNCHANGED << books, poisoned, now, uuids, payload, book, started >>

Next ==
  \/ Tick
  \/ \E r \in Reqs : Receive(r)
  \/ \E r \in Reqs : Validate(r)
  \/ \E r \in Reqs : Lock(r)
  \/ \E r \in Reqs : Scan(r)
  \/ \E r \in Reqs : Build(r)
  \/ \E r \in Reqs : Stamp(r)
  \/ \E r \in Reqs : Push(r)
  \/ \E r \in Reqs : Respond(r)

Spec == Init /\ [][Next]_vars

\* ---------------------------------------------------------------- fairness
\* The statements of create_book for one request, from line 72 on.
Handler(r) ==
  \/ Validate(r)
  \/ Lock(r)
  \/ Scan(r)
  \/ Build(r)
  \/ Stamp(r)
  \/ Push(r)
  \/ Respond(r)

\* The requests alone: the clock stands still, as no statement of the
\* handler waits for it.
NextLive ==
  \/ \E r \in Reqs : Receive(r)
  \/ \E r \in Reqs : Handler(r)

\* Every worker thread that can run keeps being scheduled; a thread blocked
\* in lock() is woken when the mutex is released.
LiveSpec == Init /\ [][NextLive]_vars /\ \A r \in Reqs : WF_vars(Handler(r))

\* ------------------------------------------------------------------ faults
\* Lines 84-91 can panic while the guard is alive (Uuid::new_v4() when the
\* system's random source fails, Local::now() on an unreadable clock).  The
\* unwinding drops the guard, which poisons the mutex; the task dies and no
\* response is written.
Panic(r) ==
  /\ pc[r] \in {"build", "stamp"}
  /\ poisoned' = IF holder = r THEN TRUE ELSE poisoned
  /\ holder' = IF holder = r THEN 0 ELSE holder
  /\ pc' = [pc EXCEPT ![r] = "panicked"]
  /\ UNCHANGED << books, now, uuids, payload, book, resp, started >>

\* Line 76 on a poisoned mutex: lock() waits for the mutex, returns
\* Err(PoisonError) and unwrap() panics; the guard inside the error is dropped.
LockPoisoned(r) ==
  /\ pc[r] = "lock"
  /\ holder = 0
  /\ poisoned
  /\ pc' = [pc EXCEPT ![r] = "panicked"]
  /\ UNCHANGED << books, holder, poisoned, now, uuids, payload, book, resp,
                  started >>

NextFault ==
  \/ Next
  \/ \E r \in Reqs : Panic(r)
  \/ \E r \in Reqs : LockPoisoned(r)

SpecFault == Init /\ [][NextFault]_vars

\* ================================================================ properties
\* Helpers of the properties below.
Stepped(r) == pc'[r] # pc[r]
AnyAbsent(p) == p.title = None \/ p.author = None \/ p.pages = None
Complete(r) == pc[r] # "idle" /\ ~AnyAbsent(payload[r])
TitleOf(r) == payload[r].title[1]
Stored(t) == {i \in 1..Len(books) : books[i].title = t}
Answered(code) == {r \in Reqs : resp[r].status = code}

\* C1: in every reachable state no two Books of the store have the same title.
UniqueTitles ==
  \A i, j \in 1..Len(books) : i # j => books[i].title # books[j].title

\* A request is scanning for a title that an earlier request has stored.
UniqueTitlesWitness ==
  \E r \in Reqs :
    /\ pc[r] = "scan" /\ holder = r
    /\ Stored(TitleOf(r)) # {}

\* C2: once all the complete requests that share a title (two or more of
\* them) have finished, exactly one of them has answered 201, every other
\* one has answered 422, and the store holds exactly one Book of that title.
SameTitleRace ==
  \A t \in Titles :
    LET S == {r \in Reqs : Complete(r) /\ TitleOf(r) = t} IN
    (Cardinality(S) >= 2 /\ \A r \in S : pc[r] = "done")
      => /\ Cardinality(S \cap Answered(201)) = 1
         /\ Cardinality(S \cap Answered(422)) = Cardinality(S) - 1
         /\ Cardinality(Stored(t)) = 1

\* Two finished requests with one title and different page counts.
SameTitleRaceWitness ==
  \E r, q \in Reqs :
    /\ r # q /\ Complete(r) /\ Complete(q)
    /\ TitleOf(r) = TitleOf(q) /\ payload[r].pages # payload[q].pages
    /\ pc[r] = "done" /\ pc[q] = "done"

\* C3: from the end of a request's scan to its append the request holds the
\* mutex without a break, the store does not change, and no other request
\* scans or appends.
InWindow == {"build", "stamp", "push"}
SingleWindow ==
  [][\A r \in Reqs : pc[r] \in InWindow =>
        /\ holder = r
        /\ Stepped(r) \/ holder' = r
        /\ books' # books => (pc[r] = "push" /\ Stepped(r))
        /\ \A q \in Reqs \ {r} : pc[q] \in {"scan", "push"} => ~Stepped(q)]_vars

\* A request is about to append while another one with the same title waits
\* for the mutex.
SingleWindowWitness ==
  \E r, q \in Reqs :
    /\ pc[r] = "push" /\ pc[q] = "lock" /\ holder = r
    /\ TitleOf(r) = TitleOf(q)

\* C4: every step of a request with an absent field leaves the store as it
\* is, and the request ends with 400 right after validation.
ValidationRejects ==
  [][\A r \in Reqs : (Stepped(r) /\ AnyAbsent(payload'[r])) =>
        /\ books' = books
        /\ pc'[r] \in {"validate", "done"}
        /\ pc'[r] = "done" => resp'[r].status = 400]_vars

\* A request with an absent field has answered 400 while the store holds a Book.
ValidationRejectsWitness ==
  \E r \in Reqs :
    /\ pc[r] = "done" /\ AnyAbsent(payload[r]) /\ resp[r].status = 400
    /\ Len(books) = 1

\* C5 as stated: in every reachable state the size of the store equals the
\* number of requests that have answered 201.
SizeIsAnswered201 == Len(books) = Cardinality(Answered(201))

\* C5 as amended: the size of the store equals the number of requests that
\* have answered 201 plus the requests that have appended and not yet
\* answered (of which there is at most one); requests that answered 400 or
\* 422 count for nothing.
Appended == {r \in Reqs : pc[r] = "respond"}
SizeIsAppended ==
  /\ Cardinality(Appended) <= 1
  /\ Len(books) = Cardinality(Answered(201)) + Cardinality(Appended)
  /\ holder = 0 => Len(books) = Cardinality(Answered(201))

\* The mutex is free, one request has answered 201 and the other has failed.
SizeIsAppendedWitness ==
  /\ holder = 0 /\ Len(books) = 1
  /\ Cardinality(Answered(201)) = 1
  /\ Answered(400) \cup Answered(422) # {}

\* C6: across every step the store before the step is a prefix of the store
\* after it.
IsPrefix(s, t) == Len(s) <= Len(t) /\ SubSeq(t, 1, Len(s)) = s
AppendOnly == [][IsPrefix(books, books')]_vars

\* The store holds two Books, in the order of their identifiers.
AppendOnlyWitness ==
  Len(books) = 2 /\ books[1].id < books[2].id

\* C7: a complete request that scans while holding the mutex and whose title
\* equals the title of a stored Book answers 422, ends there, and leaves the
\* store as it is.
ConflictRejected ==
  [][\A r \in Reqs :
        (pc[r] = "scan" /\ Stepped(r) /\ holder = r /\ Stored(TitleOf(r)) # {})
          => /\ resp'[r].status = 422
             /\ pc'[r] = "done"
             /\ books' = books]_vars

\* A request has answered 422 and its title is the title of a stored Book
\* that another request created.
ConflictRejectedWitness ==
  \E r, q \in Reqs :
    /\ resp[r].status = 422 /\ resp[q].status = 201
    /\ Stored(TitleOf(r)) # {} /\ resp[q].body.title = TitleOf(r)

\* C8: a complete request that scans while holding the mutex and finds no
\* stored Book of its title goes on to build the Book, appends it and
\* answers 201; the Book it returns carries the title, author and pages of
\* the request and is the last element of the store.
CreatedIsStored ==
  [][\A r \in Reqs :
        /\ (pc[r] = "scan" /\ Stepped(r) /\ holder = r /\ Stored(TitleOf(r)) = {})
             => (pc'[r] = "build" /\ resp'[r] = NoResponse)
        /\ (pc[r] \in {"build", "stamp", "push"} /\ Stepped(r))
             => (pc'[r] \in {"stamp", "push", "respond"} /\ resp'[r] = NoResponse)
        /\ (pc[r] = "respond" /\ Stepped(r))
             => /\ resp'[r].status = 201
                /\ resp'[r].body.title = TitleOf(r)
                /\ resp'[r].body.author = payload[r].author[1]
                /\ resp'[r].body.pages = payload[r].pages[1]
                /\ Len(books') > 0
                /\ books'[Len(books')] = resp'[r].body
                /\ Len(books') = Len(books)]_vars

\* A request has answered 201 with the second Book of the store.
CreatedIsStoredWitness ==
  \E r \in Reqs :
    /\ resp[r].status = 201 /\ Len(books) = 2
    /\ books[2] = resp[r].body /\ books[2].title = TitleOf(r)

\* C9 as stated: the Book of a 201 response has createdAt = updatedAt, and
\* both lie between the clock reading at which the request started and the
\* clock reading at which it answers.
TimestampsAgree ==
  [][\A r \in Reqs : (pc[r] = "respond" /\ Stepped(r)) =>
        /\ resp'[r].body.created_at = resp'[r].body.updated_at
        /\ started[r] <= resp'[r].body.created_at
        /\ resp'[r].body.updated_at <= now']_vars

\* C10: a request that has finished, with a response or by a panic, does
\* not own the mutex.
Finished == {r \in Reqs : pc[r] \in {"done", "panicked"}}
GuardReleased == \A r \in Finished : holder # r

\* One request answered 201, another died holding the guard, and the mutex
\* is free.
GuardReleasedWitness ==
  \E r, q \in Reqs :
    /\ resp[r].status = 201 /\ pc[q] = "panicked" /\ poisoned
    /\ holder = 0

\* C11 as stated: a request that reaches the lock while the mutex is poisoned
\* gets a 5xx response, does not go on to scan, and leaves the store as it is.
PoisonSurfaced ==
  [][\A r \in Reqs : (pc[r] = "lock" /\ poisoned /\ Stepped(r)) =>
        /\ resp'[r].status >= 500 /\ resp'[r].status <= 599
        /\ pc'[r] \notin {"scan", "build", "stamp", "push", "respond"}
        /\ books' = books]_vars

\* C12: every request that has entered the handler eventually ends with a
\* response; the mutex is only ever acquired by a request at line 76 that
\* does not own it, and a request never returns to an earlier statement, so
\* it acquires the mutex at most once.
Rank(p) ==
  CASE p = "idle" -> 0 [] p = "validate" -> 1 [] p = "lock" -> 2
    [] p = "scan" -> 3 [] p = "build" -> 4 [] p = "stamp" -> 5
    [] p = "push" -> 6 [] p = "respond" -> 7 [] OTHER -> 8
NoStarvation ==
  /\ \A r \in Reqs :
        (pc[r] # "idle") ~> (pc[r] = "done" /\ resp[r] # NoResponse)
  /\ [][\A r \in Reqs :
          /\ (holder' = r /\ holder # r) => (pc[r] = "lock" /\ pc'[r] = "scan")
          /\ (pc[r] = "lock" /\ Stepped(r)) => (holder = 0 /\ holder' = r)
          /\ Stepped(r) => Rank(pc'[r]) > Rank(pc[r])]_vars

\* A request waits at line 76 while another one, which has already appended,
\* still owns the mutex.
NoStarvationWitness ==
  \E r, q \in Reqs :
    /\ pc[q] = "lock" /\ holder = r /\ pc[r] = "respond"

\* C13: no two Books of the store share an id, and no two 201 responses
\* return the same id.
UniqueIds ==
  /\ \A i, j \in 1..Len(books) : i # j => books[i].id # books[j].id
  /\ \A r, q \in Answered(201) : r # q => resp[r].body.id # resp[q].body.id

\* Two requests have answered 201 and both their Books are stored.
UniqueIdsWitness ==
  \E r, q \in Answered(201) :
    /\ r # q /\ Len(books) = 2
    /\ {books[1].id, books[2].id} = {resp[r].body.id, resp[q].body.id}

\* C14 as stated: a 400 response carries message "Invalid params" and code
\* "400"; a 422 response carries message "Book already exists" and code "422".
ErrorBodyShape ==
  \A r \in Reqs :
    /\ resp[r].status = 400 =>
         resp[r].body = [message |-> "Invalid params", code |-> "400"]
    /\ resp[r].status = 422 =>
         resp[r].body = [message |-> "Book already exists", code |-> "422"]

\* C15: a request with an absent field can take its validation step whoever
\* owns the mutex; no step of it acquires or releases the mutex, it never
\* reaches line 76, and it ends with 400 also when its title is stored.
ValidationBeforeLock ==
  [][\A r \in Reqs :
        /\ (pc[r] = "validate" /\ AnyAbsent(payload[r])) => ENABLED Validate(r)
        /\ (Stepped(r) /\ AnyAbsent(payload'[r])) =>
             /\ holder # r /\ holder' = holder
             /\ pc'[r] \in {"validate", "done"}
             /\ pc'[r] = "done" => resp'[r].status = 400]_vars

\* A request without pages whose title is stored has answered 400 while the
\* request that stored the title still owns the mutex.
ValidationBeforeLockWitness ==
  \E r, q \in Reqs :
    /\ resp[r].status = 400 /\ payload[r].title # None
    /\ Stored(TitleOf(r)) # {}
    /\ holder = q /\ pc[q] = "respond"

\* C16: at most one request is between its lock() and the drop of its
\* guard, that request is the owner of the mutex, and every step that scans
\* the store or appends to it is taken by the owner.
Guarded == {r \in Reqs : pc[r] \in {"scan", "build", "stamp", "push", "respond"}}
MutualExclusion ==
  [][/\ Cardinality(Guarded) <= 1
     /\ \A r \in Guarded : holder = r
     /\ \A r \in Reqs :
          (pc[r] \in {"scan", "push"} /\ Stepped(r)) => holder = r
     /\ books' # books => \E r \in Reqs : holder = r /\ Stepped(r)]_vars

\* A request scans the empty store while another request waits at line 76.
MutualExclusionWitness ==
  \E r, q \in Reqs :
    /\ pc[r] = "scan" /\ holder = r /\ pc[q] = "lock"
    /\ Len(books) = 0

\* C17: a request that has passed validation has answered 400 exactly when
\* one of its three fields is absent, whatever the values of the fields
\* that are present.
Validated == {r \in Reqs : pc[r] \notin {"idle", "validate"}}
PresenceOnly ==
  \A r \in Validated : (resp[r].status = 400) <=> AnyAbsent(payload[r])

\* A request with an empty title and a negative page count has answered 201.
PresenceOnlyWitness ==
  \E r \in Answered(201) :
    payload[r].title = Some("") /\ payload[r].pages = Some(-1)

\* C18 as stated: every Book of the store has a non-empty title.
NonEmptyTitles == \A i \in 1..Len(books) : books[i].title # ""

\* C18 as amended: every Book of the store has the title that the request
\* which created it carried: a string that is present and may be empty.
Creators(b) ==
  {r \in Reqs : Complete(r) /\ pc[r] \in {"respond", "done"} /\ book[r] = b}
StoredTitlesRequested ==
  \A i \in 1..Len(books) :
    /\ books[i].title \in Titles
    /\ \E r \in Creators(books[i]) : books[i].title = TitleOf(r)

\* The store holds a Book whose title is the empty string.
StoredTitlesRequestedWitness ==
  \E i \in 1..Len(books) : books[i].title = "" /\ Creators(books[i]) # {}

\* C19: the store and the responses change as if each request ran alone as
\* one atomic validate-check-insert step, taken while the request owns the
\* mutex (or, for a request with an absent field, at its validation), so in
\* the order in which the requests acquired the mutex.  A successful
\* request takes effect at its push, a failing one at its response.
AbsResp(pcv, bookv, respv) ==
  [r \in Reqs |-> IF pcv[r] = "respond" THEN Response(201, bookv[r]) ELSE respv[r]]
AtomicCreate(r, before, after, answer) ==
  IF AnyAbsent(payload[r])
  THEN answer.status = 400 /\ after = before
  ELSE /\ holder = r
       /\ IF \E i \in 1..Len(before) : before[i].title = TitleOf(r)
          THEN answer.status = 422 /\ after = before
          ELSE /\ answer.status = 201
               /\ answer.body.title = TitleOf(r)
               /\ answer.body.author = payload[r].author[1]
               /\ answer.body.pages = payload[r].pages[1]
               /\ after = Append(before, answer.body)
Linearizable ==
  [][LET old == AbsResp(pc, book, resp)
         new == AbsResp(pc', book', resp')
     IN  \/ (books' = books /\ new = old)
         \/ \E r \in Reqs :
              /\ old[r] = NoResponse
              /\ \A q \in Reqs \ {r} : new[q] = old[q]
              /\ AtomicCreate(r, books, books', new[r])]_vars

\* One request has taken effect with 201 and still owns the mutex, a second
\* one with the same title waits at line 76, to take effect after it.
LinearizableWitness ==
  \E r, q \in Reqs :
    /\ pc[r] = "respond" /\ holder = r /\ Len(books) = 1
    /\ pc[q] = "lock" /\ TitleOf(q) = TitleOf(r)

\* C20: once a Book of title T is stored, T stays stored exactly as often
\* as it is, and a request with title T that owns the mutex without having
\* appended is at its scan and, when it steps, answers 422 and ends.
OnceStoredAlwaysConflict ==
  [][/\ \A t \in Titles :
          Stored(t) # {} => {i \in 1..Len(books') : books'[i].title = t} = Stored(t)
     /\ \A r \in Reqs :
          (holder = r /\ pc[r] # "respond" /\ Stored(TitleOf(r)) # {})
            => /\ pc[r] = "scan"
               /\ Stepped(r) => (resp'[r].status = 422 /\ pc'[r] = "done")]_vars

\* A request has answered 422 for a title that is stored once, created by
\* an earlier request with another page count.
OnceStoredAlwaysConflictWitness ==
  \E r \in Answered(422), q \in Answered(201) :
    /\ Cardinality(Stored(TitleOf(r))) = 1
    /\ TitleOf(q) = TitleOf(r) /\ payload[q].pages # payload[r].pages

====
